---- MODULE Spec2Model ----
(***************************************************************************)
(* The commerce pipeline of CineFlow: cart -> order -> payment.            *)
(*                                                                         *)
(* The state is the content of the tables the handlers of routes/carts.py  *)
(* and routes/orders.py read and write, plus one record per request in     *)
(* flight.  Every handler is cut at its awaits on the store: one action    *)
(* per store round trip (execute or commit), with the synchronous code     *)
(* that follows it.  Requests run on separate sessions and interleave      *)
(* freely between two awaits.                                              *)
(*                                                                         *)
(* Reading conventions.  Rows are kept in id order (autoincrement ids, a   *)
(* table scan of SQLite returns them in that order), so a table is a       *)
(* sequence and `first()` is its first matching row.  The store enforces   *)
(* the UNIQUE constraints the models declare.  A commit may also fail for  *)
(* a reason of the store's own (field `fault` of the request records it).  *)
(* Method-name slips of routes/carts.py (`db.cxecute`, `scalar().first()`) *)
(* and the keyword call of `model_validate` are read as the calls they     *)
(* stand for (`db.execute`, `scalars().first()`, building the response);   *)
(* the filters are modelled exactly as written, so `user_id == user_id`    *)
(* is the constant True it evaluates to.  A payment row holds the columns  *)
(* pay_order sets; the NOT NULL columns it leaves unset (user_id,          *)
(* created_at of PaymentModel) are not enforced and the status strings    *)
(* are read as the enum members they name, or no payment could ever be     *)
(* written.  The table payment_items (PaymentItemModel) is part of the     *)
(* store; no handler of the routes adds a row to it.  update_movie and     *)
(* delete_movie of routes/movies.py change the catalog the pipeline reads. *)
(***************************************************************************)
EXTENDS Integers, Sequences, FiniteSets, TLC

VARIABLES carts, cart_items, orders, order_items, payments, payment_items, purchased, movies, outbox, calls, faults, req

vars == <<carts, cart_items, orders, order_items, payments, payment_items, purchased, movies, outbox, calls, faults, req>>

-----------------------------------------------------------------------------
(* Bounds of the model *)

MaxOrders == 3     \* order rows
MaxPayments == 2   \* payment rows
MaxPrice == 2      \* catalog prices are 1..MaxPrice
MaxCalls == 4      \* requests of a run in which two requests overlap
MaxSeqCalls == 5   \* requests of a run in which none overlap
MaxFaults == 1     \* commits the store fails in a run

Users == {"u1", "u2"}
Movies == {"m1", "m2"}
MovieIds == Movies \cup {"m0"}     \* the ids a caller may name; m0 is no movie
Reqs == {1, 2}     \* the requests in flight at a time
Prices == 1..MaxPrice

(* HTTP status codes the handlers answer with *)
HTTP_200 == 200
HTTP_201 == 201
HTTP_400 == 400
HTTP_404 == 404
HTTP_500 == 500

-----------------------------------------------------------------------------
(* Helpers on rows *)

Range(s) == {s[i] : i \in DOMAIN s}

RECURSIVE SumPrices(_)
SumPrices(ms) == IF ms = <<>> THEN 0 ELSE ms[1].price + SumPrices(Tail(ms))

(* ids (positions) of the rows of table t that satisfy P *)
Ids(t, P(_)) == {i \in DOMAIN t : P(t[i])}

(* `first()` of a result: the id of the first row found, 0 for None *)
First(ids) == IF ids = {} THEN 0 ELSE CHOOSE i \in ids : \A j \in ids : i <= j

-----------------------------------------------------------------------------
(* Requests *)

Idle == [op |-> "idle", pc |-> "idle", user_id |-> "-", movie_id |-> "-",
         order_id |-> 0, cart |-> 0, items |-> <<>>, movs |-> <<>>, i |-> 0,
         total |-> 0, gw |-> "-", code |-> 0, detail |-> "-",
         fault |-> FALSE, seen_status |-> "-", seen_paid |-> 0,
         seen_ordered |-> FALSE, seen_orders |-> 0,
         seen_cart |-> "-", seen_bought |-> FALSE, notified |-> "-",
         cart_arg |-> 0, sort_by |-> "-", result |-> <<>>, queried |-> FALSE,
         own_cart |-> 0, seen_in_cart |-> FALSE]

(* a request that starts: its arguments, and where it stands *)
Call(op, pc, u, m, o) == [Idle EXCEPT !.op = op, !.pc = pc, !.user_id = u,
                                      !.movie_id = m, !.order_id = o]

(* the handler answers: the locals are dropped, what the caller and the *)
(* properties see is kept.  fault and the seen_ fields are history: the  *)
(* handler does not read them                                            *)
Answer(q, code, detail) == [Idle EXCEPT !.op = q.op, !.pc = "done",
                                        !.user_id = q.user_id, !.movie_id = q.movie_id,
                                        !.order_id = q.order_id, !.gw = q.gw,
                                        !.total = q.total,
                                        !.fault = q.fault, !.seen_status = q.seen_status,
                                        !.seen_paid = q.seen_paid,
                                        !.seen_ordered = q.seen_ordered,
                                        !.seen_orders = q.seen_orders,
                                        !.seen_cart = q.seen_cart,
                                        !.seen_bought = q.seen_bought,
                                        !.notified = q.notified,
                                        !.cart_arg = q.cart_arg,
                                        !.sort_by = q.sort_by,
                                        !.result = q.result,
                                        !.queried = q.queried,
                                        !.own_cart = q.own_cart,
                                        !.seen_in_cart = q.seen_in_cart,
                                        !.code = code, !.detail = detail]

(* history: the cart that belongs to user u (0: none), and whether movie  *)
(* m is an item of it                                                      *)
OwnCart(u) == First({c \in DOMAIN carts : carts[c].user_id = u})

InOwnCart(u, m) == [cart_id |-> OwnCart(u), movie_id |-> m] \in Range(cart_items)

(* history: user u has an order that holds one of the movies ms *)
Ordered(u, ms) ==
    \E k \in DOMAIN order_items :
        /\ order_items[k].movie_id \in ms
        /\ orders[order_items[k].order_id].user_id = u

Active(r) == req[r].pc \notin {"idle", "done"}

(* how many requests a run may hold: MaxSeqCalls while every request has  *)
(* run alone (slot 1 only), MaxCalls once a second slot is or was in use  *)
CallBudget(r) ==
    IF r = 1 /\ \A q \in Reqs : q > 1 => req[q].pc = "idle"
    THEN MaxSeqCalls ELSE MaxCalls

(* a request arrives: it takes the first slot that holds no running request *)
CanStart(r) ==
    /\ ~Active(r)
    /\ \A q \in Reqs : q < r => Active(q)
    /\ calls < CallBudget(r)

InFlight(op) == Cardinality({r \in Reqs : Active(r) /\ req[r].op = op})

-----------------------------------------------------------------------------
(* The initial state: empty tables, a catalog with a price for every movie. *)
(* No handler writes the purchase ledger; its rows are those present at     *)
(* the start.                                                                *)

PurchasedSeed == {[user_id |-> "u2", movie_id |-> "m2"]}

Init ==
    /\ carts = <<>>
    /\ cart_items = <<>>
    /\ orders = <<>>
    /\ order_items = <<>>
    /\ payments = <<>>
    /\ payment_items = <<>>
    /\ purchased = PurchasedSeed
    /\ movies = [m \in Movies |-> 1]
    /\ outbox = {}
    /\ calls = 0
    /\ faults = 0
    /\ req = [r \in Reqs |-> Idle]

-----------------------------------------------------------------------------
(* The constraints of the store *)

(* what a commit may do: succeed, or fail for a reason of the store's own *)
CommitOutcomes == IF faults < MaxFaults THEN BOOLEAN ELSE {TRUE}

(* variants of the store without the unique constraints of the cart       *)
(* tables: the cart invariants must tell them from the store               *)
CartInsertUnchecked(u) == TRUE

CartItemInsertUnchecked(c, m) == TRUE

(* carts.user_id is unique: a cart for user u can be inserted *)
CartUserUnique(u) == \A c \in DOMAIN carts : carts[c].user_id # u

(* cart_item (cart_id, movie_id) is unique: the row can be inserted *)
CartItemUnique(c, m) ==
    \A k \in DOMAIN cart_items :
        ~(cart_items[k].cart_id = c /\ cart_items[k].movie_id = m)

(* orders.status is declared unique: order row o (an id, or 0 for a row   *)
(* being inserted) can take status st when no other row has it             *)
OrderStatusUnique(o, st) ==
    \A k \in DOMAIN orders : k # o => orders[k].status # st

-----------------------------------------------------------------------------
(* create_cart: add a movie to the user's cart *)

(* a variant of the ledger lookup of add_item that finds nothing: the      *)
(* "already bought" answer must tell it from the handler                   *)
AddPurchaseNone(u, m) == {}

(* lines 65-68: the rows of the purchase ledger for user u and movie m *)
AddPurchase(u, m) == {p \in purchased : p.movie_id = m /\ p.user_id = u}

(* lines 56-73: the user row, then the purchase ledger *)
AddCheckPurchased(r, u, m) ==
    /\ CanStart(r)
    /\ calls' = calls + 1
    /\ LET q == [Call("add", "add_movie", u, m, 0) EXCEPT
                    !.seen_ordered = Ordered(u, {m}),
                    !.own_cart = OwnCart(u),
                    !.seen_in_cart = InOwnCart(u, m)]
           purchase == AddPurchase(u, m)
       IN  req' = [req EXCEPT ![r] =
                IF purchase # {}
                THEN Answer(q, HTTP_400, "You have already bought this movie")
                ELSE q]
    /\ UNCHANGED <<carts, cart_items, orders, order_items, payments, payment_items, purchased, movies, outbox, faults>>

(* lines 75-82: the movie *)
AddReadMovie(r) ==
    /\ req[r].pc = "add_movie"
    /\ req' = [req EXCEPT ![r] =
            IF req[r].movie_id \notin DOMAIN movies
            THEN Answer(@, HTTP_400, "Movie not found")
            ELSE [@ EXCEPT !.pc = "add_cart"]]
    /\ UNCHANGED <<carts, cart_items, orders, order_items, payments, payment_items, purchased, movies, outbox, calls, faults>>

(* lines 84-87: select(CartModel).where(user_id == user_id): the filter   *)
(* compares the argument with itself, so the first cart of the table is   *)
(* the result, whoever owns it                                             *)
AddCartFilter(row, u) == u = u

AddReadCart(r) ==
    /\ req[r].pc = "add_cart"
    /\ LET cart == First(Ids(carts, LAMBDA row : AddCartFilter(row, req[r].user_id)))
       IN  req' = [req EXCEPT ![r] =
                IF cart = 0 THEN [@ EXCEPT !.pc = "add_new_cart", !.seen_cart = "absent"]
                ELSE [@ EXCEPT !.pc = "add_item", !.cart = cart, !.seen_cart = "present"]]
    /\ UNCHANGED <<carts, cart_items, orders, order_items, payments, payment_items, purchased, movies, outbox, calls, faults>>

(* lines 88-91: the cart is created and committed on its own; a failure of *)
(* this commit is not caught by the handler (500)                          *)
AddCreateCart(r) ==
    /\ req[r].pc = "add_new_cart"
    /\ \E ok \in CommitOutcomes :
        /\ faults' = IF ok THEN faults ELSE faults + 1
        /\ IF ok /\ CartUserUnique(req[r].user_id)
           THEN /\ carts' = Append(carts, [user_id |-> req[r].user_id])
                /\ req' = [req EXCEPT ![r].pc = "add_item", ![r].cart = Len(carts) + 1]
           ELSE /\ carts' = carts
                /\ req' = [req EXCEPT ![r] =
                       Answer([@ EXCEPT !.fault = ~ok], HTTP_500, "Internal Server Error")]
    /\ UNCHANGED <<cart_items, orders, order_items, payments, payment_items, purchased, movies, outbox, calls>>

(* lines 93-101: is the movie in the cart already *)
AddReadItem(r) ==
    /\ req[r].pc = "add_item"
    /\ LET item_is_exist ==
               First(Ids(cart_items, LAMBDA row : row.cart_id = req[r].cart
                                                   /\ row.movie_id = req[r].movie_id))
       IN  req' = [req EXCEPT ![r] =
                IF item_is_exist # 0
                THEN Answer(@, HTTP_400, "Movie is already in the cart.")
                ELSE [@ EXCEPT !.pc = "add_commit"]]
    /\ UNCHANGED <<carts, cart_items, orders, order_items, payments, payment_items, purchased, movies, outbox, calls, faults>>

(* lines 103-115: the cart item is inserted and committed *)
AddCommitItem(r) ==
    /\ req[r].pc = "add_commit"
    /\ \E ok \in CommitOutcomes :
        /\ faults' = IF ok THEN faults ELSE faults + 1
        /\ IF ok /\ CartItemUnique(req[r].cart, req[r].movie_id)
           THEN /\ cart_items' = Append(cart_items, [cart_id |-> req[r].cart,
                                                     movie_id |-> req[r].movie_id])
                /\ req' = [req EXCEPT ![r] = Answer(@, HTTP_201, "added in cart successfully")]
           ELSE /\ cart_items' = cart_items
                /\ req' = [req EXCEPT ![r] =
                       Answer([@ EXCEPT !.fault = ~ok], HTTP_400, "Invalid input data")]
    /\ UNCHANGED <<carts, orders, order_items, payments, payment_items, purchased, movies, outbox, calls>>

-----------------------------------------------------------------------------
(* create_order: checkout of the user's cart *)

(* a variant of the cart lookup of checkout that takes any cart: the       *)
(* "cart not found" answer must tell it from the handler                   *)
AnyCartFilter(row, u) == TRUE

(* line 60: where(CartModel.user_id == data.user_id) *)
CheckoutCartFilter(row, u) == row.user_id = u

(* lines 60-65: the user's cart *)
CheckoutReadCart(r, u) ==
    /\ CanStart(r)
    /\ calls' = calls + 1
    /\ Len(orders) + InFlight("checkout") < MaxOrders
    /\ LET q == Call("checkout", "co_items", u, "-", 0)
           cart == First(Ids(carts, LAMBDA row : CheckoutCartFilter(row, u)))
       IN  req' = [req EXCEPT ![r] =
                IF cart = 0 THEN Answer([q EXCEPT !.seen_cart = "absent"],
                                        HTTP_404, "Cart not found")
                ELSE [q EXCEPT !.cart = cart, !.seen_cart = "present",
                               !.seen_ordered =
                                   Ordered(u, {cart_items[k].movie_id :
                                               k \in {j \in DOMAIN cart_items :
                                                         cart_items[j].cart_id = cart}})]]
    /\ UNCHANGED <<carts, cart_items, orders, order_items, payments, payment_items, purchased, movies, outbox, faults>>

(* a variant of the ledger lookup of checkout that finds nothing: the      *)
(* "already purchased" answer must tell it from the handler                *)
NeverBought(u, m) == {}

(* lines 76-81: the rows of the purchase ledger for user u and movie m *)
CheckoutBought(u, m) == {p \in purchased : p.movie_id = m /\ p.user_id = u}

(* lines 67-72: the items of the cart, in id order.  seen_bought notes    *)
(* whether the ledger holds one of them for the user                       *)
CheckoutReadItems(r) ==
    /\ req[r].pc = "co_items"
    /\ LET cart_items_found == SelectSeq(cart_items, LAMBDA row : row.cart_id = req[r].cart)
       IN  req' = [req EXCEPT ![r] =
                IF cart_items_found = <<>> THEN Answer(@, HTTP_404, "Cart is empty")
                ELSE [@ EXCEPT !.pc = "co_loop", !.items = cart_items_found, !.i = 1,
                               !.seen_orders = Len(orders),
                               !.seen_bought =
                                   \E k \in DOMAIN cart_items_found :
                                       [user_id |-> req[r].user_id,
                                        movie_id |-> cart_items_found[k].movie_id]
                                           \in purchased]]
    /\ UNCHANGED <<carts, cart_items, orders, order_items, payments, payment_items, purchased, movies, outbox, calls, faults>>

(* scalar_one_or_none() of the movie: its row as read now, or None *)
MovieRow(m) == IF m \in DOMAIN movies THEN [id |-> m, price |-> movies[m]]
               ELSE [id |-> "None", price |-> 0]

(* lines 75-93: one turn of the loop (the ledger, then the movie); after   *)
(* the last turn the total is the sum of the prices just read.  A movie    *)
(* that is gone was appended as None, and `movie.price` then raises        *)
(* outside any try (500)                                                   *)
CheckoutLoop(r) ==
    /\ req[r].pc = "co_loop"
    /\ LET item == req[r].items[req[r].i]
           bought == CheckoutBought(req[r].user_id, item.movie_id)
           movies_in_order == Append(req[r].movs, MovieRow(item.movie_id))
       IN  req' = [req EXCEPT ![r] =
                IF bought # {} THEN Answer(@, HTTP_400, "Movie already purchased")
                ELSE IF req[r].i < Len(req[r].items)
                THEN [@ EXCEPT !.movs = movies_in_order, !.i = @ + 1]
                ELSE IF \E k \in DOMAIN movies_in_order : movies_in_order[k].id = "None"
                THEN Answer(@, HTTP_500, "Internal Server Error")
                ELSE [@ EXCEPT !.movs = movies_in_order, !.pc = "co_order",
                               !.total = SumPrices(movies_in_order)]]
    /\ UNCHANGED <<carts, cart_items, orders, order_items, payments, payment_items, purchased, movies, outbox, calls, faults>>

(* lines 95-103: the order row is inserted and committed on its own *)
CheckoutCommitOrder(r) ==
    /\ req[r].pc = "co_order"
    /\ \E ok \in CommitOutcomes :
        /\ faults' = IF ok THEN faults ELSE faults + 1
        /\ IF ok /\ OrderStatusUnique(0, "pending")
           THEN /\ orders' = Append(orders, [user_id |-> req[r].user_id,
                                             total_amount |-> req[r].total,
                                             status |-> "pending"])
                /\ req' = [req EXCEPT ![r].pc = "co_order_items", ![r].i = 1,
                                      ![r].order_id = Len(orders) + 1]
           ELSE /\ orders' = orders
                /\ req' = [req EXCEPT ![r] =
                       Answer([@ EXCEPT !.fault = ~ok], HTTP_500, "Failed to create order")]
    /\ UNCHANGED <<carts, cart_items, order_items, payments, payment_items, purchased, movies, outbox, calls>>

(* a variant of the checkout that empties the cart it was built from: the  *)
(* frame of checkout must tell it from the handler                         *)
CartItemsCleared(c) == SelectSeq(cart_items, LAMBDA row : row.cart_id # c)

(* lines 104-112: the rows of cart_item after an order item of a checkout  *)
(* of cart c is committed: the handler does not touch them                 *)
CartItemsAfterOrderItem(c) == cart_items

(* lines 104-121: one order item is inserted and committed per turn; the   *)
(* rollback of a failed turn undoes that turn only, the order row and the  *)
(* items of the turns before are committed already                         *)
CheckoutCommitItem(r) ==
    /\ req[r].pc = "co_order_items"
    /\ \E ok \in CommitOutcomes :
        /\ faults' = IF ok THEN faults ELSE faults + 1
        /\ IF ok
           THEN /\ order_items' = Append(order_items,
                       [order_id |-> req[r].order_id,
                        movie_id |-> req[r].movs[req[r].i].id,
                        price_at_order |-> req[r].movs[req[r].i].price])
                /\ req' = [req EXCEPT ![r] =
                       IF req[r].i < Len(req[r].movs) THEN [@ EXCEPT !.i = @ + 1]
                       ELSE Answer(@, HTTP_201, "pending")]
           ELSE /\ order_items' = order_items
                /\ req' = [req EXCEPT ![r] =
                       Answer([@ EXCEPT !.fault = TRUE], HTTP_500, "Failed to create order")]
        /\ cart_items' = IF ok THEN CartItemsAfterOrderItem(req[r].cart) ELSE cart_items
    /\ UNCHANGED <<carts, orders, payments, payment_items, purchased, movies, outbox, calls>>

-----------------------------------------------------------------------------
(* cancel_order *)

(* lines 166-176: the order of that user with that id, and its status *)
CancelRead(r, u, o) ==
    /\ CanStart(r)
    /\ o <= Len(orders) + 1
    /\ calls' = calls + 1
    /\ LET q == Call("cancel", "cancel_commit", u, "-", o)
           order == First(Ids(orders, LAMBDA row : row.user_id = u) \cap {o})
       IN  req' = [req EXCEPT ![r] =
                IF order = 0 THEN Answer(q, HTTP_404, "Order not found")
                ELSE IF orders[order].status # "pending"
                THEN Answer([q EXCEPT !.seen_status = orders[order].status],
                            HTTP_400, "Order cannot be canceled")
                ELSE [q EXCEPT !.seen_status = orders[order].status]]
    /\ UNCHANGED <<carts, cart_items, orders, order_items, payments, payment_items, purchased, movies, outbox, faults>>

(* a variant of the cancel that also zeroes the total of the order: the    *)
(* frame of cancel must tell it from the handler                           *)
OrdersCancelRefunded(o) == [orders EXCEPT ![o].status = "canceled", ![o].total_amount = 0]

(* lines 179-180: the orders table after the cancel of order o is          *)
(* committed: order.status is the one attribute assigned                   *)
OrdersAfterCancel(o) == [orders EXCEPT ![o].status = "canceled"]

(* lines 178-190: the status is set and committed; a failed commit is      *)
(* rolled back (500)                                                       *)
CancelCommit(r) ==
    /\ req[r].pc = "cancel_commit"
    /\ \E ok \in CommitOutcomes :
        /\ faults' = IF ok THEN faults ELSE faults + 1
        /\ IF ok /\ OrderStatusUnique(req[r].order_id, "canceled")
           THEN /\ orders' = OrdersAfterCancel(req[r].order_id)
                /\ req' = [req EXCEPT ![r] = Answer(@, HTTP_200, "Order canceled successfully")]
           ELSE /\ orders' = orders
                /\ req' = [req EXCEPT ![r] =
                       Answer([@ EXCEPT !.fault = ~ok], HTTP_500, "Failed to cancel order")]
    /\ UNCHANGED <<carts, cart_items, order_items, payments, payment_items, purchased, movies, outbox, calls>>

-----------------------------------------------------------------------------
(* pay_order *)

(* lines 312-321: the user, then the items of the order *)
PayReadItems(r, u, o) ==
    /\ CanStart(r)
    /\ o <= Len(orders) + 1
    /\ calls' = calls + 1
    /\ Len(payments) + InFlight("pay") < MaxPayments
    /\ LET q == Call("pay", "pay_movies", u, "-", o)
           found == SelectSeq(order_items, LAMBDA row : row.order_id = o)
       IN  req' = [req EXCEPT ![r] =
                IF found = <<>> THEN Answer(q, HTTP_404, "Order not found")
                ELSE [q EXCEPT !.items = found]]
    /\ UNCHANGED <<carts, cart_items, orders, order_items, payments, payment_items, purchased, movies, outbox, faults>>

(* lines 323-331: the movie of every item *)
PayReadMovies(r) ==
    /\ req[r].pc = "pay_movies"
    /\ req' = [req EXCEPT ![r] =
            IF \E k \in DOMAIN req[r].items : req[r].items[k].movie_id \notin DOMAIN movies
            THEN Answer(@, HTTP_404, "Movie not found")
            ELSE [@ EXCEPT !.pc = "pay_order"]]
    /\ UNCHANGED <<carts, cart_items, orders, order_items, payments, payment_items, purchased, movies, outbox, calls, faults>>

(* number of SUCCESSFUL payments recorded for order o *)
PaidCount(o) ==
    Cardinality({k \in DOMAIN payments :
                    payments[k].order_id = o /\ payments[k].status = "successful"})

(* lines 333-338: the order, by id alone; only its id and total_amount are *)
(* used afterwards.  seen_status and seen_paid note what the store held at *)
(* this read                                                               *)
PayOrderFilter(row_id, row, o, u) == row_id = o

PayReadOrder(r) ==
    /\ req[r].pc = "pay_order"
    /\ LET order == First({k \in DOMAIN orders :
                              PayOrderFilter(k, orders[k], req[r].order_id, req[r].user_id)})
       IN  req' = [req EXCEPT ![r] =
                IF order = 0 THEN Answer(@, HTTP_404, "Order not found")
                ELSE [@ EXCEPT !.pc = "pay_gateway",
                               !.total = orders[order].total_amount,
                               !.seen_status = orders[order].status,
                               !.seen_paid = PaidCount(order)]]
    /\ UNCHANGED <<carts, cart_items, orders, order_items, payments, payment_items, purchased, movies, outbox, calls, faults>>

(* a variant of the gateway step that goes on to the payment write when    *)
(* the gateway call raises: the handling of a gateway failure must tell it *)
(* from the handler                                                        *)
PayGatewayErrorRecorded(r) ==
    /\ req[r].pc = "pay_gateway"
    /\ \E outcome \in {"success", "cancel", "error"} :
        req' = [req EXCEPT ![r] = [@ EXCEPT !.gw = outcome, !.pc = "pay_commit"]]
    /\ UNCHANGED <<carts, cart_items, orders, order_items, payments, payment_items, purchased, movies, outbox, calls, faults>>

(* lines 340-356: the gateway creates the checkout session for             *)
(* order.total_amount; it answers with a session whose success_url is set  *)
(* ("success") or not ("cancel"), or the call raises ("error", caught at   *)
(* line 379)                                                               *)
PayGateway(r) ==
    /\ req[r].pc = "pay_gateway"
    /\ \E outcome \in {"success", "cancel", "error"} :
        req' = [req EXCEPT ![r] =
            IF outcome = "error"
            THEN Answer([@ EXCEPT !.gw = outcome], HTTP_500, "Failed to process payment")
            ELSE [@ EXCEPT !.gw = outcome, !.pc = "pay_commit"]]
    /\ UNCHANGED <<carts, cart_items, orders, order_items, payments, payment_items, purchased, movies, outbox, calls, faults>>

(* lines 358-360 and 369-371: the payment row, with the columns the        *)
(* handler sets                                                            *)
PaymentRow(o, amount, st) == [order_id |-> o, amount |-> amount, status |-> st]

(* a variant of the payment commit that marks the order PAID whatever its  *)
(* status: the status machine must tell it from the handler                *)
OrdersMarkedPaid(o) == [orders EXCEPT ![o].status = "paid"]

(* lines 357-363: the orders table after a successful payment of order o   *)
(* is committed: the handler writes the payment row and nothing else       *)
OrdersAfterPayment(o) == orders

(* a variant in which the confirmation mail goes out whether or not the    *)
(* payment commit went through: the order of commit and mail must tell it  *)
(* from the handler                                                        *)
MailBeforeCommit(ok, mail, success) == mail /\ success

(* lines 360-367: the mail call follows the awaited commit inside the      *)
(* success branch, so it is reached only when the commit did not raise     *)
MailSent(ok, mail, success) == ok /\ mail /\ success

(* lines 357-386: the payment row is inserted and committed; on success    *)
(* the confirmation mail is sent after the commit, inside the try; on      *)
(* cancel the HTTPException(400) is raised inside the try.  Whatever is    *)
(* raised inside the try is answered with 500                              *)
PayCommit(r) ==
    /\ req[r].pc = "pay_commit"
    /\ \E ok \in CommitOutcomes, mail \in BOOLEAN :
        LET success == req[r].gw = "success"
            sent == MailSent(ok, mail, success)
        IN  /\ faults' = IF ok THEN faults ELSE faults + 1
            /\ payments' = IF ok
                           THEN Append(payments,
                                       PaymentRow(req[r].order_id, req[r].total,
                                                  IF success THEN "successful"
                                                             ELSE "cancelled"))
                           ELSE payments
            /\ orders' = IF ok /\ success THEN OrdersAfterPayment(req[r].order_id)
                                          ELSE orders
            /\ outbox' = IF sent
                         THEN outbox \cup {[kind |-> "payment_success",
                                            order_id |-> req[r].order_id]}
                         ELSE outbox
            /\ req' = [req EXCEPT ![r] =
                    IF sent THEN Answer([@ EXCEPT !.notified = "sent"],
                                        HTTP_201, "Payment successful")
                    ELSE Answer([@ EXCEPT !.fault = ~ok,
                                          !.notified = IF ok /\ success THEN "failed"
                                                                        ELSE "-"],
                                HTTP_500, "Failed to process payment")]
    /\ UNCHANGED <<carts, cart_items, order_items, payment_items, purchased, movies, calls>>

-----------------------------------------------------------------------------
(* clear_cart (routes/carts.py) *)

(* line 241: select(CartModel).where(user_id == user_id) *)
ClearCartFilter(row, u) == u = u

(* table t without the rows of seq gone *)
Without(t, gone) == SelectSeq(t, LAMBDA row : row \notin Range(gone))

(* lines 232-248: the user, then the cart *)
ClearReadCart(r, u) ==
    /\ CanStart(r)
    /\ calls' = calls + 1
    /\ LET q == [Call("clear", "clear_items", u, "-", 0) EXCEPT !.own_cart = OwnCart(u)]
           cart == First(Ids(carts, LAMBDA row : ClearCartFilter(row, u)))
       IN  req' = [req EXCEPT ![r] =
                IF cart = 0 THEN Answer([q EXCEPT !.seen_cart = "absent"],
                                        HTTP_404, "Cart not found.")
                ELSE [q EXCEPT !.cart = cart, !.seen_cart = "present"]]
    /\ UNCHANGED <<carts, cart_items, orders, order_items, payments, payment_items, purchased, movies, outbox, faults>>

(* lines 249-253: cart.cart_items is loaded *)
ClearReadItems(r) ==
    /\ req[r].pc = "clear_items"
    /\ LET found == SelectSeq(cart_items, LAMBDA row : row.cart_id = req[r].cart)
       IN  req' = [req EXCEPT ![r] =
                IF found = <<>> THEN Answer(@, HTTP_400, "Cart is already empty.")
                ELSE [@ EXCEPT !.pc = "clear_commit", !.items = found]]
    /\ UNCHANGED <<carts, cart_items, orders, order_items, payments, payment_items, purchased, movies, outbox, calls, faults>>

(* lines 255-267: the items that were loaded are deleted in one commit; a  *)
(* failed commit is rolled back (500)                                      *)
ClearCommit(r) ==
    /\ req[r].pc = "clear_commit"
    /\ \E ok \in CommitOutcomes :
        /\ faults' = IF ok THEN faults ELSE faults + 1
        /\ cart_items' = IF ok THEN Without(cart_items, req[r].items) ELSE cart_items
        /\ req' = [req EXCEPT ![r] =
                IF ok THEN Answer(@, HTTP_200, "Cart cleared successfully.")
                ELSE Answer([@ EXCEPT !.fault = TRUE], HTTP_500, "Failed to clear cart.")]
    /\ UNCHANGED <<carts, orders, order_items, payments, payment_items, purchased, movies, outbox, calls>>

-----------------------------------------------------------------------------
(* remove_movie_from_cart (routes/carts.py) *)

(* line 324: select(CartModel).where(user_id == user_id) *)
RemoveCartFilter(row, u) == u = u

(* line 333: where(and_(cart_id == cart.id, movie_id == movie_id)): both   *)
(* sides are arguments or locals, no column of the row takes part          *)
RemoveItemFilter(row, cart_id, cart, movie_id) == cart_id = cart /\ movie_id = movie_id

(* the group of each user (UserModel.group): the routes of the pipeline    *)
(* never write the users table, one of the users is a moderator            *)
UserGroup == [u \in Users |-> IF u = "u2" THEN "moderator" ELSE "user"]

(* lines 346-350: filter(UserGroupModel == UserGroupsEnum.MODERATOR)       *)
(* compares the class with the enum member                                 *)
ModeratorFilter(u) == FALSE

(* lines 306-322: the user, then the movie *)
RemoveReadMovie(r, u, m, c) ==
    /\ CanStart(r)
    /\ calls' = calls + 1
    /\ LET q == [Call("remove", "rm_cart", u, m, 0) EXCEPT
                    !.cart_arg = c, !.own_cart = OwnCart(u),
                    !.seen_in_cart = InOwnCart(u, m)]
       IN  req' = [req EXCEPT ![r] =
                IF m \notin DOMAIN movies THEN Answer(q, HTTP_404, "Movie not found.")
                ELSE q]
    /\ UNCHANGED <<carts, cart_items, orders, order_items, payments, payment_items, purchased, movies, outbox, faults>>

(* lines 324-331: the cart *)
RemoveReadCart(r) ==
    /\ req[r].pc = "rm_cart"
    /\ LET cart == First(Ids(carts, LAMBDA row : RemoveCartFilter(row, req[r].user_id)))
       IN  req' = [req EXCEPT ![r] =
                IF cart = 0 THEN Answer([@ EXCEPT !.seen_cart = "absent"],
                                        HTTP_404, "Cart not found.")
                ELSE [@ EXCEPT !.pc = "rm_item", !.cart = cart, !.seen_cart = "present"]]
    /\ UNCHANGED <<carts, cart_items, orders, order_items, payments, payment_items, purchased, movies, outbox, calls, faults>>

(* lines 333-340: the cart item: the first row the filter lets through *)
RemoveReadItem(r) ==
    /\ req[r].pc = "rm_item"
    /\ LET cart_item == First(Ids(cart_items,
                                  LAMBDA row : RemoveItemFilter(row, req[r].cart_arg,
                                                                req[r].cart, req[r].movie_id)))
       IN  req' = [req EXCEPT ![r] =
                IF cart_item = 0 THEN Answer(@, HTTP_404, "Cart item not found.")
                ELSE [@ EXCEPT !.pc = "rm_commit", !.items = <<cart_items[cart_item]>>]]
    /\ UNCHANGED <<carts, cart_items, orders, order_items, payments, payment_items, purchased, movies, outbox, calls, faults>>

(* lines 342-367: the row is deleted and committed, then a mail to every   *)
(* moderator is handed to the background tasks; a failed commit is rolled  *)
(* back (500)                                                              *)
RemoveCommit(r) ==
    /\ req[r].pc = "rm_commit"
    /\ \E ok \in CommitOutcomes :
        LET moderators == {u \in Users : ModeratorFilter(u)}
        IN  /\ faults' = IF ok THEN faults ELSE faults + 1
            /\ cart_items' = IF ok THEN Without(cart_items, req[r].items) ELSE cart_items
            /\ outbox' = IF ok
                         THEN outbox \cup {[kind |-> "remove_movie", to |-> u,
                                            movie_id |-> req[r].movie_id,
                                            cart_id |-> req[r].cart_arg] : u \in moderators}
                         ELSE outbox
            /\ req' = [req EXCEPT ![r] =
                    IF ok THEN Answer(@, HTTP_200, "removed from cart successfully")
                    ELSE Answer([@ EXCEPT !.fault = TRUE], HTTP_500, "Request failed.")]
    /\ UNCHANGED <<carts, orders, order_items, payments, payment_items, purchased, movies, calls>>

-----------------------------------------------------------------------------
(* get_cart (routes/carts.py): view of the cart *)

(* line 161: select(CartModel).where(user_id == user_id) *)
ViewCartFilter(row, u) == u = u

(* lines 171-180: one entry per item whose movie exists, with the movie's  *)
(* catalog price as it is now                                              *)
RECURSIVE MoviesData(_)
MoviesData(items) ==
    IF items = <<>> THEN <<>>
    ELSE (IF items[1].movie_id \in DOMAIN movies
          THEN <<[id |-> items[1].movie_id, price |-> movies[items[1].movie_id]]>>
          ELSE <<>>) \o MoviesData(Tail(items))

(* lines 151-168: the user, then the cart *)
ViewReadCart(r, u) ==
    /\ CanStart(r)
    /\ calls' = calls + 1
    /\ LET q == [Call("view", "view_items", u, "-", 0) EXCEPT !.own_cart = OwnCart(u)]
           cart == First(Ids(carts, LAMBDA row : ViewCartFilter(row, u)))
       IN  req' = [req EXCEPT ![r] =
                IF cart = 0 THEN Answer([q EXCEPT !.seen_cart = "absent"],
                                        HTTP_404, "Cart not found.")
                ELSE [q EXCEPT !.cart = cart, !.seen_cart = "present"]]
    /\ UNCHANGED <<carts, cart_items, orders, order_items, payments, payment_items, purchased, movies, outbox, faults>>

(* lines 169-182: cart.cart_items and their movies are loaded, the         *)
(* response is built                                                       *)
ViewReadItems(r) ==
    /\ req[r].pc = "view_items"
    /\ LET found == SelectSeq(cart_items, LAMBDA row : row.cart_id = req[r].cart)
       IN  req' = [req EXCEPT ![r] =
                Answer([@ EXCEPT !.result = MoviesData(found)], HTTP_200, "cart")]
    /\ UNCHANGED <<carts, cart_items, orders, order_items, payments, payment_items, purchased, movies, outbox, calls, faults>>

-----------------------------------------------------------------------------
(* get_all_orders (routes/orders.py): the admin list *)

(* the names getattr(OrderModel, sort_by) resolves to a column *)
OrderColumns == {"id", "user_id", "created_at", "status", "total_amount"}

(* the sort keys a caller may name *)
SortKeys == {"id", "total_amount", "user_id", "title"}

(* user ids are integers in the store: their order *)
UserRank(u) == IF u = "u1" THEN 1 ELSE 2

(* the value order row o is sorted by; created_at grows with the id *)
KeyValue(o, key) ==
    CASE key = "total_amount" -> orders[o].total_amount
      [] key = "user_id" -> UserRank(orders[o].user_id)
      [] key = "status" -> (CASE orders[o].status = "pending" -> 1
                              [] orders[o].status = "paid" -> 2
                              [] OTHER -> 3)
      [] OTHER -> o

(* order ids ids in ascending order of key, ties in id order *)
RECURSIVE SortedBy(_, _)
SortedBy(ids, key) ==
    IF ids = {} THEN <<>>
    ELSE LET o == CHOOSE a \in ids :
                     \A b \in ids : \/ KeyValue(a, key) < KeyValue(b, key)
                                    \/ KeyValue(a, key) = KeyValue(b, key) /\ a <= b
         IN  <<o>> \o SortedBy(ids \ {o}, key)

(* lines 250-267: getattr(OrderModel, sort_by) is taken as it comes: a     *)
(* column name goes into the ORDER BY of the query, a name OrderModel does *)
(* not have raises AttributeError before the query (500)                   *)
ListAllOrders(r, sort_by) ==
    /\ CanStart(r)
    /\ calls' = calls + 1
    /\ LET q == [Call("list_all", "done", "-", "-", 0) EXCEPT !.sort_by = sort_by]
       IN  req' = [req EXCEPT ![r] =
                IF sort_by \in OrderColumns
                THEN Answer([q EXCEPT !.queried = TRUE,
                                      !.result = SortedBy(DOMAIN orders, sort_by)],
                            HTTP_200, "orders")
                ELSE Answer(q, HTTP_500, "Internal Server Error")]
    /\ UNCHANGED <<carts, cart_items, orders, order_items, payments, payment_items, purchased, movies, outbox, faults>>

-----------------------------------------------------------------------------
(* delete_movie (routes/movies.py): a movie leaves the catalog *)

(* some cart item or order item names movie m *)
MovieReferenced(m) ==
    \/ \E k \in DOMAIN cart_items : cart_items[k].movie_id = m
    \/ \E k \in DOMAIN order_items : order_items[k].movie_id = m

(* lines 406-407: db.delete(movie), commit.  MovieModel.cart_items and     *)
(* MovieModel.order_items are relationships without a delete cascade over  *)
(* NOT NULL foreign keys, and the foreign keys of cart_item name tables    *)
(* that do not exist: when rows name the movie, the delete either fails on *)
(* them (the movie stays) or goes through and leaves them naming a movie   *)
(* that is gone, SQLite not enforcing foreign keys                         *)
DeleteOutcomes(m) == IF MovieReferenced(m) THEN BOOLEAN ELSE {TRUE}

(* lines 391-409: the movie is read (404 when absent, nothing changes) and *)
(* deleted                                                                 *)
DeleteMovie(m) ==
    /\ calls < CallBudget(1)
    /\ calls' = calls + 1
    /\ m \in DOMAIN movies
    /\ \E ok \in DeleteOutcomes(m) :
        movies' = IF ok THEN [x \in DOMAIN movies \ {m} |-> movies[x]] ELSE movies
    /\ UNCHANGED <<carts, cart_items, orders, order_items, payments, payment_items, purchased, outbox, faults, req>>

-----------------------------------------------------------------------------
(* update_movie (routes/movies.py): the catalog price of a movie changes *)
UpdateMovie(m, p) ==
    /\ calls < CallBudget(1)
    /\ calls' = calls + 1
    /\ m \in DOMAIN movies
    /\ movies[m] # p
    /\ movies' = [movies EXCEPT ![m] = p]
    /\ UNCHANGED <<carts, cart_items, orders, order_items, payments, payment_items, purchased, outbox, faults, req>>

-----------------------------------------------------------------------------
(* the order ids a caller may name *)
OrderIds == 1..MaxOrders

(* the cart ids a caller may name *)
CartIds == {1, 2}

Next ==
    \/ \E r \in Reqs, u \in Users, m \in MovieIds : AddCheckPurchased(r, u, m)
    \/ \E r \in Reqs : AddReadMovie(r)
    \/ \E r \in Reqs : AddReadCart(r)
    \/ \E r \in Reqs : AddCreateCart(r)
    \/ \E r \in Reqs : AddReadItem(r)
    \/ \E r \in Reqs : AddCommitItem(r)
    \/ \E r \in Reqs, u \in Users : CheckoutReadCart(r, u)
    \/ \E r \in Reqs : CheckoutReadItems(r)
    \/ \E r \in Reqs : CheckoutLoop(r)
    \/ \E r \in Reqs : CheckoutCommitOrder(r)
    \/ \E r \in Reqs : CheckoutCommitItem(r)
    \/ \E r \in Reqs, u \in Users, o \in OrderIds : CancelRead(r, u, o)
    \/ \E r \in Reqs : CancelCommit(r)
    \/ \E r \in Reqs, u \in Users, o \in OrderIds : PayReadItems(r, u, o)
    \/ \E r \in Reqs : PayReadMovies(r)
    \/ \E r \in Reqs : PayReadOrder(r)
    \/ \E r \in Reqs : PayGateway(r)
    \/ \E r \in Reqs : PayCommit(r)
    \/ \E m \in Movies, p \in Prices : UpdateMovie(m, p)

Spec == Init /\ [][Next]_vars

(* the cart handlers on their own: add, clear, remove and view, with the   *)
(* catalog prices moving                                                   *)
CartNext ==
    \/ \E r \in Reqs, u \in Users, m \in MovieIds : AddCheckPurchased(r, u, m)
    \/ \E r \in Reqs : AddReadMovie(r)
    \/ \E r \in Reqs : AddReadCart(r)
    \/ \E r \in Reqs : AddCreateCart(r)
    \/ \E r \in Reqs : AddReadItem(r)
    \/ \E r \in Reqs : AddCommitItem(r)
    \/ \E r \in Reqs, u \in Users : ClearReadCart(r, u)
    \/ \E r \in Reqs : ClearReadItems(r)
    \/ \E r \in Reqs : ClearCommit(r)
    \/ \E r \in Reqs, u \in Users, m \in Movies, c \in CartIds : RemoveReadMovie(r, u, m, c)
    \/ \E r \in Reqs : RemoveReadCart(r)
    \/ \E r \in Reqs : RemoveReadItem(r)
    \/ \E r \in Reqs : RemoveCommit(r)
    \/ \E r \in Reqs, u \in Users : ViewReadCart(r, u)
    \/ \E r \in Reqs : ViewReadItems(r)
    \/ \E m \in Movies, p \in Prices : UpdateMovie(m, p)

CartSpec == Init /\ [][CartNext]_vars

(* the admin list of the orders, next to the handlers that make and change *)
(* orders                                                                  *)
AdminNext ==
    \/ \E r \in Reqs, u \in Users, m \in MovieIds : AddCheckPurchased(r, u, m)
    \/ \E r \in Reqs : AddReadMovie(r)
    \/ \E r \in Reqs : AddReadCart(r)
    \/ \E r \in Reqs : AddCreateCart(r)
    \/ \E r \in Reqs : AddReadItem(r)
    \/ \E r \in Reqs : AddCommitItem(r)
    \/ \E r \in Reqs, u \in Users : CheckoutReadCart(r, u)
    \/ \E r \in Reqs : CheckoutReadItems(r)
    \/ \E r \in Reqs : CheckoutLoop(r)
    \/ \E r \in Reqs : CheckoutCommitOrder(r)
    \/ \E r \in Reqs : CheckoutCommitItem(r)
    \/ \E r \in Reqs, u \in Users, o \in OrderIds : CancelRead(r, u, o)
    \/ \E r \in Reqs : CancelCommit(r)
    \/ \E r \in Reqs, k \in SortKeys : ListAllOrders(r, k)
    \/ \E m \in Movies, p \in Prices : UpdateMovie(m, p)

AdminSpec == Init /\ [][AdminNext]_vars

(* the two handlers that notify, pay and remove, next to the handlers that *)
(* fill carts and make orders                                              *)
NotifyNext ==
    \/ \E r \in Reqs, u \in Users, m \in MovieIds : AddCheckPurchased(r, u, m)
    \/ \E r \in Reqs : AddReadMovie(r)
    \/ \E r \in Reqs : AddReadCart(r)
    \/ \E r \in Reqs : AddCreateCart(r)
    \/ \E r \in Reqs : AddReadItem(r)
    \/ \E r \in Reqs : AddCommitItem(r)
    \/ \E r \in Reqs, u \in Users : CheckoutReadCart(r, u)
    \/ \E r \in Reqs : CheckoutReadItems(r)
    \/ \E r \in Reqs : CheckoutLoop(r)
    \/ \E r \in Reqs : CheckoutCommitOrder(r)
    \/ \E r \in Reqs : CheckoutCommitItem(r)
    \/ \E r \in Reqs, u \in Users, o \in OrderIds : PayReadItems(r, u, o)
    \/ \E r \in Reqs : PayReadMovies(r)
    \/ \E r \in Reqs : PayReadOrder(r)
    \/ \E r \in Reqs : PayGateway(r)
    \/ \E r \in Reqs : PayCommit(r)
    \/ \E r \in Reqs, u \in Users, m \in Movies, c \in CartIds : RemoveReadMovie(r, u, m, c)
    \/ \E r \in Reqs : RemoveReadCart(r)
    \/ \E r \in Reqs : RemoveReadItem(r)
    \/ \E r \in Reqs : RemoveCommit(r)

NotifySpec == Init /\ [][NotifyNext]_vars

(* the catalog losing movies, next to the handlers that read it: add and   *)
(* checkout                                                                *)
CatalogNext ==
    \/ \E r \in Reqs, u \in Users, m \in MovieIds : AddCheckPurchased(r, u, m)
    \/ \E r \in Reqs : AddReadMovie(r)
    \/ \E r \in Reqs : AddReadCart(r)
    \/ \E r \in Reqs : AddCreateCart(r)
    \/ \E r \in Reqs : AddReadItem(r)
    \/ \E r \in Reqs : AddCommitItem(r)
    \/ \E r \in Reqs, u \in Users : CheckoutReadCart(r, u)
    \/ \E r \in Reqs : CheckoutReadItems(r)
    \/ \E r \in Reqs : CheckoutLoop(r)
    \/ \E r \in Reqs : CheckoutCommitOrder(r)
    \/ \E r \in Reqs : CheckoutCommitItem(r)
    \/ \E m \in Movies : DeleteMovie(m)

CatalogSpec == Init /\ [][CatalogNext]_vars

-----------------------------------------------------------------------------
(* Properties *)

PayDone(r) == req[r].op = "pay" /\ req[r].pc = "done"

(* the movies of the items of order o *)
OrderMovies(o) == {order_items[k].movie_id :
                      k \in {j \in DOMAIN order_items : order_items[j].order_id = o}}

(* C1: when two pay calls for the same PENDING order interleave (each read *)
(* the order before a successful payment of it was committed) and the      *)
(* gateway reports success to both, exactly one SUCCESSFUL payment is      *)
(* recorded, the order is PAID, one call succeeds and the other is         *)
(* answered Conflict (400).                                                *)
C1_InterleavedPayChargesOnce ==
    \A r1 \in Reqs, r2 \in Reqs :
        ( /\ r1 # r2 /\ faults = 0
          /\ PayDone(r1) /\ PayDone(r2)
          /\ req[r1].order_id = req[r2].order_id
          /\ req[r1].gw = "success" /\ req[r2].gw = "success"
          /\ req[r1].seen_status = "pending" /\ req[r2].seen_status = "pending"
          /\ req[r1].seen_paid = 0 /\ req[r2].seen_paid = 0 )
        => /\ PaidCount(req[r1].order_id) = 1
           /\ orders[req[r1].order_id].status = "paid"
           /\ {req[r1].code, req[r2].code} = {HTTP_201, HTTP_400}

(* C2: in every reachable state each order has at most one payment with    *)
(* status SUCCESSFUL.                                                      *)
C2_AtMostOneSuccessfulPayment ==
    \A o \in DOMAIN orders : PaidCount(o) <= 1

(* C3: no user pays for the same movie twice: no two SUCCESSFUL payments   *)
(* belong to orders of the same user that both contain the same movie.     *)
C3_NoMoviePaidTwice ==
    \A k1 \in DOMAIN payments, k2 \in DOMAIN payments :
        ( /\ k1 # k2
          /\ payments[k1].status = "successful" /\ payments[k2].status = "successful"
          /\ orders[payments[k1].order_id].user_id = orders[payments[k2].order_id].user_id )
        => OrderMovies(payments[k1].order_id) \cap OrderMovies(payments[k2].order_id) = {}

(* C4: an order row is created PENDING and is never removed; its status    *)
(* changes only from PENDING, to PAID (by a pay request whose gateway call *)
(* succeeded) or to CANCELED (by a cancel request): PAID and CANCELED are  *)
(* terminal.                                                               *)
C4_StatusMachineStep ==
    /\ Len(orders') >= Len(orders)
    /\ \A o \in DOMAIN orders' :
        IF o \notin DOMAIN orders THEN orders'[o].status = "pending"
        ELSE orders'[o].status # orders[o].status =>
                /\ orders[o].status = "pending"
                /\ \/ /\ orders'[o].status = "paid"
                      /\ \E r \in Reqs : /\ req[r].op = "pay" /\ req[r].order_id = o
                                         /\ req[r].gw = "success" /\ req'[r].pc = "done"
                   \/ /\ orders'[o].status = "canceled"
                      /\ \E r \in Reqs : /\ req[r].op = "cancel" /\ req[r].order_id = o
                                         /\ req[r].pc = "cancel_commit"
                                         /\ req'[r].pc = "done"

C4_StatusTransitions == [][C4_StatusMachineStep]_vars

(* C4, witness: a cancel request has moved an order to CANCELED, a pay     *)
(* request for that order has then been through the gateway and its        *)
(* commit, and another order is PENDING.                                   *)
C4_Witness ==
    \E o \in DOMAIN orders, r \in Reqs, k \in DOMAIN payments, o2 \in DOMAIN orders :
        /\ orders[o].status = "canceled"
        /\ orders[o2].status = "pending"
        /\ PayDone(r) /\ req[r].order_id = o /\ req[r].seen_status = "canceled"
        /\ payments[k].order_id = o /\ payments[k].status = "successful"

(* C5: a pay call on a PENDING order to which the gateway reports success  *)
(* (the store not failing) is answered with success (201), leaves the      *)
(* order PAID and a SUCCESSFUL payment of the order's total_amount.        *)
C5_PaySuccessSettlesOrder ==
    \A r \in Reqs :
        ( /\ PayDone(r) /\ faults = 0
          /\ req[r].gw = "success" /\ req[r].seen_status = "pending" )
        => /\ req[r].code = HTTP_201
           /\ orders[req[r].order_id].status = "paid"
           /\ \E k \in DOMAIN payments :
                 /\ payments[k].order_id = req[r].order_id
                 /\ payments[k].status = "successful"
                 /\ payments[k].amount = orders[req[r].order_id].total_amount

(* C6: after a pay call that succeeded, the purchase ledger holds a record *)
(* (user, movie) for every movie of the order.                             *)
C6_PaySuccessFillsLedger ==
    \A r \in Reqs :
        (PayDone(r) /\ req[r].code = HTTP_201)
        => \A m \in OrderMovies(req[r].order_id) :
              [user_id |-> orders[req[r].order_id].user_id, movie_id |-> m] \in purchased

(* C7: a pay call that finds the order PAID or CANCELED does not call the  *)
(* gateway, writes no payment and is answered Conflict (400).              *)
C7_PayRejectsNonPending ==
    \A r \in Reqs :
        (req[r].op = "pay" /\ req[r].seen_status \in {"paid", "canceled"})
        => /\ req[r].gw = "-"
           /\ req[r].pc = "done" => req[r].code = HTTP_400

(* C8: cancel is answered NotFound (404) when the user has no order of     *)
(* that id and Conflict (400) when the order is not PENDING; on a PENDING  *)
(* order of the user (the store not failing) it leaves the order CANCELED. *)
C8_CancelOutcome ==
    \A r \in Reqs :
        (req[r].op = "cancel" /\ req[r].pc = "done" /\ faults = 0)
        => /\ req[r].seen_status = "-" => req[r].code = HTTP_404
           /\ req[r].seen_status \in {"paid", "canceled"} => req[r].code = HTTP_400
           /\ req[r].seen_status = "pending" =>
                 /\ orders[req[r].order_id].status = "canceled"
                 /\ req[r].code = HTTP_200

(* C9: once a checkout of user U has put movie M in an order, add_item(U,  *)
(* M) and a checkout of U whose cart holds M are answered Conflict (400).  *)
C9_OrderedMovieIsRefused ==
    \A r \in Reqs :
        ( /\ req[r].op \in {"add", "checkout"} /\ req[r].pc = "done"
          /\ faults = 0 /\ req[r].seen_ordered )
        => req[r].code = HTTP_400

(* C10: of two checkout calls of the same user that interleave on the same *)
(* cart (each read the cart before the other committed its order), at most *)
(* one creates an order (201) and the other is answered Conflict (400).    *)
C10_InterleavedCheckoutOneOrder ==
    \A r1 \in Reqs, r2 \in Reqs :
        ( /\ r1 # r2 /\ faults = 0
          /\ req[r1].op = "checkout" /\ req[r2].op = "checkout"
          /\ req[r1].pc = "done" /\ req[r2].pc = "done"
          /\ req[r1].user_id = req[r2].user_id
          /\ req[r1].code # HTTP_404 /\ req[r2].code # HTTP_404
          /\ req[r1].seen_orders = req[r2].seen_orders )
        => /\ {req[r1].code, req[r2].code} \subseteq {HTTP_201, HTTP_400}
           /\ ~(req[r1].code = HTTP_201 /\ req[r2].code = HTTP_201)

(* the sum of price_at_order over the items of order o *)
RECURSIVE SumItems(_, _)
SumItems(o, k) ==
    IF k = 0 THEN 0
    ELSE (IF order_items[k].order_id = o THEN order_items[k].price_at_order ELSE 0)
         + SumItems(o, k - 1)

(* C11: checkout is all-or-nothing: a checkout that was answered with a    *)
(* failure has left no order row and no order item of that attempt.        *)
C11_FailedCheckoutLeavesNothing ==
    \A r \in Reqs :
        (req[r].op = "checkout" /\ req[r].pc = "done" /\ req[r].code # HTTP_201)
        => /\ req[r].order_id \notin DOMAIN orders
           /\ \A k \in DOMAIN order_items : order_items[k].order_id # req[r].order_id

(* C12: the total_amount of every order (once the checkout that builds it  *)
(* has returned) equals the sum of the price_at_order of its items,        *)
(* whatever happens to the catalog prices afterwards.                      *)
C12_TotalIsSumOfItems ==
    \A o \in DOMAIN orders :
        (\A r \in Reqs : ~(Active(r) /\ req[r].op = "checkout" /\ req[r].order_id = o))
        => orders[o].total_amount = SumItems(o, Len(order_items))

(* request r moves in this step and is (or becomes) a checkout *)
CheckoutStep(r) == req'[r] # req[r] /\ req'[r].op = "checkout"

(* C13: no step of a checkout, whether it ends in success or in failure,   *)
(* changes the carts or the cart items: the cart holds after checkout what *)
(* it held before.                                                         *)
C13_CheckoutKeepsCart ==
    [][\A r \in Reqs : CheckoutStep(r) => carts' = carts /\ cart_items' = cart_items]_vars

(* C13, witness: one checkout has returned with success and one with a     *)
(* failure, and the cart they were built from still holds its items.       *)
C13_Witness ==
    \E r1 \in Reqs, r2 \in Reqs, k \in DOMAIN cart_items :
        /\ req[r1].op = "checkout" /\ req[r1].pc = "done" /\ req[r1].code = HTTP_201
        /\ req[r2].op = "checkout" /\ req[r2].pc = "done" /\ req[r2].code = HTTP_500
        /\ req[r1].user_id = req[r2].user_id
        /\ carts[cart_items[k].cart_id].user_id = req[r1].user_id
        /\ cart_items[k].movie_id \in OrderMovies(req[r1].order_id)

(* C14: a checkout of a user who has no cart is answered NotFound (404,    *)
(* "Cart not found"), a checkout that finds the cart without items is      *)
(* answered NotFound (404, "Cart is empty"); either answer ends the call   *)
(* with no order and no order item created.                                *)
C14_CheckoutNotFoundStep ==
    \A r \in Reqs :
        LET no_cart == /\ ~Active(r) /\ CheckoutStep(r)
                       /\ \A c \in DOMAIN carts : carts[c].user_id # req'[r].user_id
            no_items == /\ req[r].pc = "co_items" /\ CheckoutStep(r)
                        /\ \A k \in DOMAIN cart_items : cart_items[k].cart_id # req[r].cart
        IN  (no_cart \/ no_items)
            => /\ req'[r].pc = "done" /\ req'[r].code = HTTP_404
               /\ req'[r].detail = IF no_cart THEN "Cart not found" ELSE "Cart is empty"
               /\ req'[r].order_id = 0
               /\ orders' = orders /\ order_items' = order_items

C14_CheckoutNotFound == [][C14_CheckoutNotFoundStep]_vars

(* C14, witness: a checkout was answered "Cart not found" for a user       *)
(* without a cart and another "Cart is empty" for a user whose cart has no *)
(* item, and there is no order.                                            *)
C14_Witness ==
    \E r1 \in Reqs, r2 \in Reqs, c \in DOMAIN carts :
        /\ req[r1].op = "checkout" /\ req[r1].pc = "done"
        /\ req[r1].detail = "Cart not found"
        /\ \A k \in DOMAIN carts : carts[k].user_id # req[r1].user_id
        /\ req[r2].op = "checkout" /\ req[r2].pc = "done"
        /\ req[r2].detail = "Cart is empty"
        /\ carts[c].user_id = req[r2].user_id
        /\ \A k \in DOMAIN cart_items : cart_items[k].cart_id # c
        /\ orders = <<>> /\ order_items = <<>>

(* C15: a checkout whose cart holds a movie the ledger records for the     *)
(* user never reaches the writes (no order, no order item of its own) and  *)
(* is answered Conflict (400, "Movie already purchased"), whatever other   *)
(* movies the cart holds.                                                  *)
C15_PurchasedMovieStopsCheckout ==
    \A r \in Reqs :
        (req[r].op = "checkout" /\ req[r].seen_bought)
        => /\ req[r].pc \in {"co_loop", "done"}
           /\ req[r].order_id = 0
           /\ req[r].pc = "done" => /\ req[r].code = HTTP_400
                                    /\ req[r].detail = "Movie already purchased"

(* C15, witness: a checkout was answered "Movie already purchased" for a   *)
(* cart that holds a purchased movie after a movie the user has not        *)
(* bought, and no order exists.                                            *)
C15_Witness ==
    \E r \in Reqs, k1 \in DOMAIN cart_items, k2 \in DOMAIN cart_items :
        /\ req[r].op = "checkout" /\ req[r].pc = "done" /\ req[r].seen_bought
        /\ req[r].code = HTTP_400
        /\ k1 < k2
        /\ cart_items[k1].cart_id = cart_items[k2].cart_id
        /\ carts[cart_items[k1].cart_id].user_id = req[r].user_id
        /\ [user_id |-> req[r].user_id, movie_id |-> cart_items[k1].movie_id] \notin purchased
        /\ [user_id |-> req[r].user_id, movie_id |-> cart_items[k2].movie_id] \in purchased
        /\ orders = <<>> /\ order_items = <<>>

(* C16: a pay call on a PENDING order for which the gateway reports a      *)
(* cancellation (the store not failing) records one CANCELLED payment,     *)
(* leaves the order PENDING and is answered Conflict (400), not with an    *)
(* internal error.                                                         *)
C16_GatewayCancelIsConflict ==
    \A r \in Reqs :
        ( /\ PayDone(r) /\ faults = 0
          /\ req[r].gw = "cancel" /\ req[r].seen_status = "pending" )
        => /\ req[r].code = HTTP_400
           /\ orders[req[r].order_id].status = "pending"
           /\ \E k \in DOMAIN payments : /\ payments[k].order_id = req[r].order_id
                                         /\ payments[k].status = "cancelled"

(* C17: when the gateway call of pay raises, the request ends there with   *)
(* the gateway error answer (500, "Failed to process payment"); as in      *)
(* every step of pay before the payment commit, no payment row is written  *)
(* and no order, order item, ledger row or cart changes, so the order is   *)
(* as payable afterwards as it was before.                                 *)
C17_GatewayErrorStep ==
    \A r \in Reqs :
        (req'[r] # req[r] /\ req'[r].op = "pay" /\ req[r].pc # "pay_commit")
        => /\ payments' = payments /\ orders' = orders
           /\ order_items' = order_items /\ purchased' = purchased
           /\ carts' = carts /\ cart_items' = cart_items /\ outbox' = outbox
           /\ req'[r].gw = "error" =>
                 /\ req'[r].pc = "done" /\ req'[r].code = HTTP_500
                 /\ req'[r].detail = "Failed to process payment"

C17_GatewayErrorWritesNothing == [][C17_GatewayErrorStep]_vars

(* C17, witness: a pay call of a PENDING order ended in a gateway error,   *)
(* another pay call of the same order succeeded, the order is PENDING and  *)
(* the only payment of the order is that of the call that succeeded.       *)
C17_Witness ==
    \E r1 \in Reqs, r2 \in Reqs :
        /\ PayDone(r1) /\ req[r1].gw = "error" /\ req[r1].seen_status = "pending"
        /\ PayDone(r2) /\ req[r2].code = HTTP_201
        /\ req[r2].order_id = req[r1].order_id
        /\ orders[req[r1].order_id].status = "pending"
        /\ Cardinality({k \in DOMAIN payments :
                           payments[k].order_id = req[r1].order_id}) = 1

(* C18: in every reachable state an order has a SUCCESSFUL payment if and  *)
(* only if its status is PAID and the ledger holds a record (user, movie)  *)
(* for every movie of the order.                                           *)
C18_PaymentWithItsEffects ==
    \A o \in DOMAIN orders :
        PaidCount(o) >= 1
        <=> /\ orders[o].status = "paid"
            /\ \A m \in OrderMovies(o) :
                  [user_id |-> orders[o].user_id, movie_id |-> m] \in purchased

(* C19: a pay call whose payment was committed and whose confirmation mail *)
(* then failed is still answered with success (201), and the payment stays *)
(* recorded.                                                               *)
C19_MailFailureKeepsSuccess ==
    \A r \in Reqs :
        (PayDone(r) /\ req[r].notified = "failed")
        => /\ req[r].code = HTTP_201
           /\ \E k \in DOMAIN payments : /\ payments[k].order_id = req[r].order_id
                                         /\ payments[k].status = "successful"

(* C20: when two add_item calls of the same user both found no cart and    *)
(* both went on to create it (the store not failing otherwise), neither is *)
(* answered with an error: the one that loses the unique (user_id)         *)
(* constraint goes on with the cart that exists.                           *)
C20_DuplicateCartCreateIsAbsorbed ==
    \A r1 \in Reqs, r2 \in Reqs :
        ( /\ r1 # r2 /\ faults = 0
          /\ req[r1].op = "add" /\ req[r2].op = "add"
          /\ req[r1].user_id = req[r2].user_id
          /\ req[r1].seen_cart = "absent" /\ req[r2].seen_cart = "absent"
          /\ req[r1].pc = "done" /\ req[r2].pc = "done" )
        => req[r1].code # HTTP_500 /\ req[r2].code # HTTP_500

(* C21: each user has at most one cart, and a cart row, once created, is   *)
(* never deleted nor changed by add_item, remove_item or clear: it is only *)
(* emptied.                                                                *)
C21_OneCartKeptStep ==
    /\ \A c \in DOMAIN carts : c \in DOMAIN carts' /\ carts'[c] = carts[c]
    /\ \A c1 \in DOMAIN carts', c2 \in DOMAIN carts' :
          carts'[c1].user_id = carts'[c2].user_id => c1 = c2

C21_OneCartPerUserKept == [][C21_OneCartKeptStep]_vars

(* C21, witness: of two add_item calls of a user that both found no cart   *)
(* one lost the duplicate create, the user has one cart, and a clear has   *)
(* emptied it since: the cart row is still there, without items.           *)
C21_Witness ==
    \E r1 \in Reqs, r2 \in Reqs :
        /\ req[r1].op = "add" /\ req[r1].pc = "done" /\ req[r1].seen_cart = "absent"
        /\ req[r1].code = HTTP_500 /\ ~req[r1].fault
        /\ req[r2].op = "clear" /\ req[r2].pc = "done" /\ req[r2].code = HTTP_200
        /\ req[r2].user_id = req[r1].user_id
        /\ OwnCart(req[r1].user_id) # 0
        /\ cart_items = <<>>

(* C22: whatever add_item, remove_item and clear calls run, one after the  *)
(* other or interleaved, no two cart items have the same (cart_id,         *)
(* movie_id).                                                              *)
C22_MovieOncePerCart ==
    \A k1 \in DOMAIN cart_items, k2 \in DOMAIN cart_items :
        cart_items[k1] = cart_items[k2] => k1 = k2

(* C22, witness: two add_item calls of the same movie both found it absent *)
(* from the cart; one inserted it, the other was stopped by the store.     *)
C22_Witness ==
    \E r1 \in Reqs, r2 \in Reqs :
        /\ r1 # r2
        /\ req[r1].op = "add" /\ req[r1].pc = "done" /\ req[r1].code = HTTP_201
        /\ req[r2].op = "add" /\ req[r2].pc = "done" /\ ~req[r2].fault
        /\ req[r2].detail = "Invalid input data"
        /\ req[r1].movie_id = req[r2].movie_id
        /\ \E k \in DOMAIN cart_items : cart_items[k].movie_id = req[r1].movie_id

(* request r starts in this step, as a call of op *)
Starts(r, op) == ~Active(r) /\ req'[r] # req[r] /\ req'[r].op = op

(* C23: an add_item(U, M) that starts with (U, M) in the purchase ledger   *)
(* is answered Conflict (400) in its first step, before any cart is read:  *)
(* no cart is created and no cart item is added.                           *)
C23_BoughtMovieStep ==
    \A r \in Reqs :
        ( /\ Starts(r, "add")
          /\ [user_id |-> req'[r].user_id, movie_id |-> req'[r].movie_id] \in purchased )
        => /\ req'[r].pc = "done" /\ req'[r].code = HTTP_400
           /\ req'[r].detail = "You have already bought this movie"
           /\ carts' = carts /\ cart_items' = cart_items

C23_BoughtMovieNotAdded == [][C23_BoughtMovieStep]_vars

(* C23, witness: add_item of a movie the user has bought was answered      *)
(* Conflict while the user had no cart, and there is still no cart.        *)
C23_Witness ==
    \E r \in Reqs :
        /\ req[r].op = "add" /\ req[r].pc = "done" /\ req[r].code = HTTP_400
        /\ [user_id |-> req[r].user_id, movie_id |-> req[r].movie_id] \in purchased
        /\ req[r].own_cart = 0
        /\ carts = <<>> /\ cart_items = <<>>

(* C24: add_item of a movie that is not in the catalog is answered         *)
(* NotFound (404) and creates neither a cart nor a cart item.              *)
C24_UnknownMovieNotFound ==
    \A r \in Reqs :
        ( /\ req[r].op = "add" /\ req[r].pc = "done"
          /\ req[r].movie_id \notin DOMAIN movies )
        => /\ req[r].code = HTTP_404
           /\ \A k \in DOMAIN cart_items : cart_items[k].movie_id # req[r].movie_id

(* C25: when add_item(U, M) looks for the movie in the cart while M is an  *)
(* item of U's cart, the call is answered Conflict (400) there and the     *)
(* cart items stay as they are.                                            *)
C25_MovieInCartStep ==
    \A r \in Reqs :
        ( /\ req[r].pc = "add_item" /\ req'[r] # req[r]
          /\ InOwnCart(req[r].user_id, req[r].movie_id) )
        => /\ req'[r].pc = "done" /\ req'[r].code = HTTP_400
           /\ cart_items' = cart_items

C25_MovieInCartIsConflict == [][C25_MovieInCartStep]_vars

(* the items of the cart of user u *)
OwnItems(u) == SelectSeq(cart_items, LAMBDA row : row.cart_id = OwnCart(u))

(* C26: a clear of a user whose cart holds items deletes all of them in    *)
(* one step or, if the delete fails, none; a clear of a user whose cart is *)
(* empty is answered Conflict (400, "already empty") and changes nothing.  *)
C26_ClearStep ==
    \A r \in Reqs :
        LET u == req[r].user_id
        IN  /\ (req[r].pc = "clear_items" /\ req'[r] # req[r] /\ OwnCart(u) # 0)
               => /\ cart_items' = cart_items
                  /\ IF OwnItems(u) = <<>>
                     THEN req'[r].pc = "done" /\ req'[r].code = HTTP_400
                     ELSE req'[r].pc = "clear_commit" /\ req'[r].items = OwnItems(u)
            /\ (req[r].pc = "clear_commit" /\ req'[r] # req[r])
               => IF req'[r].code = HTTP_200
                  THEN cart_items' = Without(cart_items, OwnItems(u))
                  ELSE cart_items' = cart_items

C26_ClearAllOrNothing == [][C26_ClearStep]_vars

(* C27: remove_item(U, M) is answered NotFound (404), changing nothing,    *)
(* when U has no cart or M is not an item of U's cart; otherwise the       *)
(* delete removes the item (U's cart, M) and no other cart item.           *)
C27_RemoveStep ==
    \A r \in Reqs :
        LET u == req[r].user_id
            m == req[r].movie_id
        IN  /\ (req[r].pc = "rm_cart" /\ req'[r] # req[r] /\ OwnCart(u) = 0)
               => /\ req'[r].pc = "done" /\ req'[r].code = HTTP_404
                  /\ cart_items' = cart_items
            /\ (req[r].pc = "rm_item" /\ req'[r] # req[r] /\ ~InOwnCart(u, m))
               => /\ req'[r].pc = "done" /\ req'[r].code = HTTP_404
                  /\ cart_items' = cart_items
            /\ (req[r].pc = "rm_commit" /\ req'[r] # req[r])
               => IF req'[r].code = HTTP_200
                  THEN cart_items' = Without(cart_items,
                                             <<[cart_id |-> OwnCart(u), movie_id |-> m]>>)
                  ELSE cart_items' = cart_items

C27_RemoveExactlyOne == [][C27_RemoveStep]_vars

(* C28: a pay(order_id, user_id) whose order belongs to a different user   *)
(* reaches no gateway call and is answered NotFound (404); so no payment   *)
(* is written for it.  Orders keep their id and their user for good.       *)
C28_PayOnlyOwnOrder ==
    \A r \in Reqs :
        ( /\ req[r].op = "pay"
          /\ req[r].order_id \in DOMAIN orders
          /\ orders[req[r].order_id].user_id # req[r].user_id )
        => /\ req[r].gw = "-"
           /\ req[r].pc \in {"pay_movies", "pay_order", "done"}
           /\ req[r].pc = "done" => req[r].code = HTTP_404

(* the sort keys the specification allows for list_all *)
AllowedSortKeys == {"id", "created_at", "total_amount", "status"}

(* C29: a list_all whose sort key is outside the allow-list {id,           *)
(* created_at, total_amount, status} is rejected before any store access:  *)
(* no query is issued for it and it is answered neither with the orders    *)
(* (200) nor with a server error (500).                                    *)
C29_SortKeyAllowList ==
    \A r \in Reqs :
        ( /\ req[r].op = "list_all" /\ req[r].pc = "done"
          /\ req[r].sort_by \notin AllowedSortKeys )
        => /\ ~req[r].queried
           /\ req[r].code \notin {HTTP_200, HTTP_500}

(* one entry per item of u's own cart, with the movie's price as the       *)
(* catalog holds it                                                        *)
OwnCartView(u) ==
    [k \in 1..Len(OwnItems(u)) |->
        [id |-> OwnItems(u)[k].movie_id, price |-> movies[OwnItems(u)[k].movie_id]]]

(* C30: view(U) changes no state; when U has no cart it is answered        *)
(* NotFound (404); otherwise it is answered 200 with exactly one entry per *)
(* item of U's own cart, each with the movie's current catalog price.      *)
C30_ViewStep ==
    \A r \in Reqs :
        LET u == req'[r].user_id
        IN  /\ (Starts(r, "view") /\ OwnCart(u) = 0)
               => req'[r].pc = "done" /\ req'[r].code = HTTP_404
            /\ (req[r].pc = "view_items" /\ req'[r] # req[r] /\ OwnCart(u) # 0)
               => /\ req'[r].pc = "done" /\ req'[r].code = HTTP_200
                  /\ req'[r].result = OwnCartView(u)
            /\ ((Starts(r, "view") \/ req[r].pc = "view_items") /\ req'[r] # req[r])
               => UNCHANGED <<carts, cart_items, movies, purchased, outbox>>

C30_ViewOwnCart == [][C30_ViewStep]_vars

(* C31: a notification goes out only in the step that commits the write it *)
(* reports, never before it and never when that commit fails: the payment  *)
(* confirmation with the commit of a SUCCESSFUL payment of its order, the  *)
(* moderator alert with the commit that deletes the cart item.             *)
C31_NotifyStep ==
    /\ outbox' # outbox
       => \E r \in Reqs :
            \/ /\ req[r].pc = "pay_commit" /\ req'[r].pc = "done" /\ ~req'[r].fault
               /\ payments' = Append(payments, PaymentRow(req[r].order_id, req[r].total,
                                                          "successful"))
               /\ outbox' \ outbox = {[kind |-> "payment_success",
                                       order_id |-> req[r].order_id]}
            \/ /\ req[r].pc = "rm_commit" /\ req'[r].code = HTTP_200
               /\ cart_items' = Without(cart_items, req[r].items)
               /\ \A n \in outbox' \ outbox : n.kind = "remove_movie"
    /\ \A r \in Reqs :
         (req[r].pc \in {"pay_commit", "rm_commit"} /\ req'[r].pc = "done" /\ req'[r].fault)
         => /\ outbox' = outbox
            /\ payments' = payments /\ cart_items' = cart_items

C31_NotifyAfterCommit == [][C31_NotifyStep]_vars

(* a pay call has ended with its confirmation sent, and the SUCCESSFUL     *)
(* payment of its order is in the store                                    *)
C31_Witness ==
    /\ \E n \in outbox : n.kind = "payment_success"
    /\ \E r \in Reqs : /\ req[r].op = "pay" /\ req[r].pc = "done" /\ req[r].notified = "sent"
                       /\ \E k \in DOMAIN payments :
                            /\ payments[k].order_id = req[r].order_id
                            /\ payments[k].status = "successful"

(* C32: after a pay call that succeeded, a SUCCESSFUL payment of its order *)
(* has exactly one payment item per order item of the order, priced at     *)
(* that order item's price_at_order, and no other payment item.            *)
C32_PaymentItemized ==
    \A r \in Reqs :
        (PayDone(r) /\ req[r].code = HTTP_201)
        => \E k \in DOMAIN payments :
            /\ payments[k].order_id = req[r].order_id
            /\ payments[k].status = "successful"
            /\ \A j \in DOMAIN order_items :
                 order_items[j].order_id = req[r].order_id
                 => Cardinality({i \in DOMAIN payment_items :
                                    /\ payment_items[i].payment_id = k
                                    /\ payment_items[i].order_item_id = j}) = 1
            /\ \A i \in DOMAIN payment_items :
                 payment_items[i].payment_id = k
                 => /\ payment_items[i].order_item_id \in DOMAIN order_items
                    /\ order_items[payment_items[i].order_item_id].order_id = req[r].order_id
                    /\ payment_items[i].price_at_payment
                         = order_items[payment_items[i].order_item_id].price_at_order

(* the order items of order o, in the order of the table *)
ItemsOf(t, o) == SelectSeq(t, LAMBDA row : row.order_id = o)

(* C33: once an order row exists no step removes it or changes its user_id *)
(* or total_amount (created_at is set by the store at insert and never     *)
(* assigned); its order items are never removed or changed, and they grow  *)
(* only in a step of the checkout that is creating the order: cancel, pay  *)
(* and every other operation leave them as they are.                       *)
C33_OrderFrameStep ==
    \A o \in DOMAIN orders :
        /\ o \in DOMAIN orders'
        /\ orders'[o].user_id = orders[o].user_id
        /\ orders'[o].total_amount = orders[o].total_amount
        /\ \/ ItemsOf(order_items', o) = ItemsOf(order_items, o)
           \/ /\ \E r \in Reqs : /\ req[r].op = "checkout" /\ req[r].pc = "co_order_items"
                                 /\ req[r].order_id = o /\ req'[r] # req[r]
              /\ Len(ItemsOf(order_items', o)) = Len(ItemsOf(order_items, o)) + 1
              /\ SubSeq(ItemsOf(order_items', o), 1, Len(ItemsOf(order_items, o)))
                   = ItemsOf(order_items, o)

C33_OnlyStatusChanges == [][C33_OrderFrameStep]_vars

(* an order with an item and a total was canceled and then paid: both      *)
(* operations have acted on it                                             *)
C33_Witness ==
    \E o \in DOMAIN orders :
        /\ orders[o].status = "canceled" /\ orders[o].total_amount >= 1
        /\ PaidCount(o) = 1
        /\ ItemsOf(order_items, o) # <<>>

(* C34: an add_item that creates the user's cart commits once: the step in *)
(* which the new cart row becomes visible is the step in which its first   *)
(* cart item becomes visible and the add ends, so no state has the cart    *)
(* committed with the add still able to fail.                              *)
C34_CartStep ==
    carts' # carts
    => \E r \in Reqs :
        /\ req[r].op = "add" /\ req[r].seen_cart = "absent"
        /\ carts' = Append(carts, [user_id |-> req[r].user_id])
        /\ cart_items' = Append(cart_items, [cart_id |-> Len(carts) + 1,
                                             movie_id |-> req[r].movie_id])
        /\ req'[r].pc = "done" /\ req'[r].code = HTTP_201

C34_CartWithFirstItem == [][C34_CartStep]_vars

(* the users who hold the moderator role *)
Moderators == {u \in Users : UserGroup[u] = "moderator"}

(* C35: the step that ends a remove_item with success schedules one alert  *)
(* for every moderator, naming the movie that was removed, and none for a  *)
(* user of another role.                                                   *)
C35_AlertStep ==
    \A r \in Reqs :
        (req[r].pc = "rm_commit" /\ req'[r].pc = "done" /\ req'[r].code = HTTP_200)
        => /\ \A u \in Moderators :
                [kind |-> "remove_movie", to |-> u, movie_id |-> req[r].movie_id,
                 cart_id |-> req[r].cart_arg] \in outbox'
           /\ \A n \in outbox' \ outbox : n.kind = "remove_movie" /\ n.to \in Moderators

C35_ModeratorsAlerted == [][C35_AlertStep]_vars

(* the rows of table t that belong to cart c *)
CartRows(t, c) == SelectSeq(t, LAMBDA row : row.cart_id = c)

(* C36: while two users a and b each have a cart, no step of a cart        *)
(* operation called for b changes the items of a's cart.                   *)
C36_IsolationStep ==
    \A r \in Reqs, a \in Users :
        LET b == req'[r].user_id
        IN  ( /\ req'[r] # req[r]
              /\ req'[r].op \in {"add", "remove", "clear", "view"}
              /\ b # a /\ OwnCart(a) # 0 /\ OwnCart(b) # 0 )
            => CartRows(cart_items', OwnCart(a)) = CartRows(cart_items, OwnCart(a))

C36_CartsIsolated == [][C36_IsolationStep]_vars

(* C37: while another user holds a PENDING order, the order commit of a    *)
(* checkout that found its user's cart non-empty and its movies not        *)
(* purchased goes through unless the store itself fails: a second PENDING  *)
(* order appears.                                                          *)
C37_OrderCommitStep ==
    \A r \in Reqs :
        ( /\ req[r].op = "checkout" /\ req[r].pc = "co_order"
          /\ req'[r] # req[r] /\ ~req'[r].fault
          /\ \E o \in DOMAIN orders : /\ orders[o].status = "pending"
                                      /\ orders[o].user_id # req[r].user_id )
        => /\ Len(orders') = Len(orders) + 1
           /\ orders'[Len(orders')].user_id = req[r].user_id
           /\ orders'[Len(orders')].status = "pending"
           /\ req'[r].pc # "done"

C37_OrdersIndependent == [][C37_OrderCommitStep]_vars

(* C38: when a pay call read its order PENDING and the order is CANCELED   *)
(* (a cancel of it committed meanwhile or afterwards), no SUCCESSFUL       *)
(* payment of that order is in the store.                                  *)
C38_NoPaidCanceledOrder ==
    \A r \in Reqs :
        ( /\ req[r].op = "pay" /\ req[r].seen_status = "pending"
          /\ req[r].order_id \in DOMAIN orders
          /\ orders[req[r].order_id].status = "canceled" )
        => PaidCount(req[r].order_id) = 0

(* C39: a turn of the checkout loop that finds the movie of its cart item  *)
(* gone from the catalog (and not purchased) ends the checkout with        *)
(* NotFound (404); no step of a checkout whose cart holds such an item     *)
(* creates an order or an order item.                                      *)
C39_DeletedMovieStep ==
    \A r \in Reqs :
        ( /\ req[r].op = "checkout" /\ req[r].pc = "co_loop" /\ req'[r] # req[r]
          /\ req[r].items[req[r].i].movie_id \notin DOMAIN movies
          /\ CheckoutBought(req[r].user_id, req[r].items[req[r].i].movie_id) = {} )
        => /\ req'[r].pc = "done" /\ req'[r].code = HTTP_404
           /\ orders' = orders /\ order_items' = order_items

C39_DeletedMovieIsNotFound == [][C39_DeletedMovieStep]_vars

(* C40: an add_item(U, M) that has passed the ledger and the catalog goes  *)
(* on to its insert when M is not in U's own cart, whatever else the cart  *)
(* holds; when M is still not in U's cart at the insert and the store does *)
(* not fail, the add succeeds and U's cart holds its previous items plus   *)
(* M, every other cart item unchanged.                                     *)
C40_AddStep ==
    \A r \in Reqs :
        LET u == req[r].user_id
            m == req[r].movie_id
        IN  /\ ( /\ req[r].op = "add" /\ req[r].pc = "add_item" /\ req'[r] # req[r]
                 /\ ~InOwnCart(u, m) )
               => req'[r].pc = "add_commit"
            /\ ( /\ req[r].op = "add" /\ req[r].pc = "add_commit" /\ req'[r] # req[r]
                 /\ ~InOwnCart(u, m) /\ ~req'[r].fault )
               => /\ req'[r].code = HTTP_201
                  /\ OwnCart(u) # 0
                  /\ cart_items' = Append(cart_items, [cart_id |-> OwnCart(u),
                                                       movie_id |-> m])

C40_AddToOwnCart == [][C40_AddStep]_vars

====
